---- MODULE Spec2Model ----
(***************************************************************************)
(* PlotAgent (todsop03.py): a natural-language plotting request is turned  *)
(* into code by a pandas dataframe agent, the code is extracted from the   *)
(* agent's response, checked against ALLOWED_KEYWORDS and executed in a    *)
(* namespace {df, pd, plt}.  One query is processed at a time; pc is the   *)
(* position inside run / process_query.                                    *)
(***************************************************************************)
EXTENDS Integers, Sequences, FiniteSets, TLC

VARIABLES pc, queryNo, columns, input_user, columnChecked, response,
          code_snippet, exc, printed, agentCalls, toolRuns, extractCalls,
          execCalls, execState, runEntries, validated, ns, allowed,
          verdicts, pltFigs, boundEver

vars == <<pc, queryNo, columns, input_user, columnChecked, response,
          code_snippet, exc, printed, agentCalls, toolRuns, extractCalls,
          execCalls, execState, runEntries, validated, ns, allowed,
          verdicts, pltFigs, boundEver>>

\* ------------------------------------------------------------------ bounds
\* number of queries one PlotAgent processes in a behaviour
MaxQueries == 2
\* number of python tool calls the dataframe agent makes in one invoke
MaxToolRuns == 1

\* --------------------------------------------------------------- constants
\* a plausible slip: an entry is lost from the list
AllowedKeywordsShort ==
    << "df", "iloc", "to_dict", "mean", "mode", "std",
       "max", "min", "color", "plot", "unique" >>

ALLOWED_KEYWORDS ==
    << "df", "iloc", "to_dict", "mean", "mode", "std",
       "max", "min", "color", "plot", "unique", "groupby" >>

\* the substring looked for in the lower-cased query
SalePriceKeyword == << "s", "a", "l", "e", " ", "p", "r", "i", "c", "e" >>

\* the columns demanded when the query mentions the keyword
RequiredColumns == << "sale price", "country" >>

Range(s) == { s[i] : i \in 1..Len(s) }

\* ------------------------------------------------------------ query texts
\* a query is a sequence of characters
QSalePrice   == << "s", "a", "l", "e", " ", "p", "r", "i", "c", "e" >>
QMixedCase   == << "S", "a", "l", "e", " ", "P", "r", "i", "c", "e" >>
QUpperInside == << "x", " ", "S", "A", "L", "E", " ", "P", "R", "I", "C", "E", " ", "y" >>
QTwoSpaces   == << "s", "a", "l", "e", " ", " ", "p", "r", "i", "c", "e" >>
QSwapped     == << "p", "r", "i", "c", "e", " ", "s", "a", "l", "e" >>
QCountry     == << "c", "o", "u", "n", "t", "r", "y" >>

Queries == { QSalePrice, QMixedCase, QUpperInside, QTwoSpaces, QSwapped, QCountry }

\* str.lower on one character
LowerChar(c) ==
    CASE c = "S" -> "s" [] c = "A" -> "a" [] c = "L" -> "l" [] c = "E" -> "e"
      [] c = "P" -> "p" [] c = "R" -> "r" [] c = "I" -> "i" [] c = "C" -> "c"
      [] OTHER -> c

\* str.lower
Lower(s) == [ i \in 1..Len(s) |-> LowerChar(s[i]) ]

\* the `in` operator on strings: needle is a contiguous substring of hay
Contains(hay, needle) ==
    \E i \in 1..(Len(hay) - Len(needle) + 1) :
        SubSeq(hay, i, i + Len(needle) - 1) = needle

\* a plausible slip: the query is searched without lower-casing it
MentionsSalePriceCaseSensitive(q) == Contains(q, SalePriceKeyword)

\* 'sale price' in input_user.lower()
MentionsSalePrice(q) == Contains(Lower(q), SalePriceKeyword)

\* [col for col in required_columns if col not in self.df.columns]
RECURSIVE MissingColumns(_, _)
MissingColumns(required, cols) ==
    IF required = << >> THEN << >>
    ELSE (IF Head(required) \in cols THEN << >> ELSE << Head(required) >>)
         \o MissingColumns(Tail(required), cols)

\* ', '.join(seq), kept as the sequence of its pieces
RECURSIVE Join(_)
Join(seq) ==
    IF Len(seq) <= 1 THEN seq
    ELSE << Head(seq), ", " >> \o Join(Tail(seq))

\* ------------------------------------------------------------- exceptions
NoException == [ cls |-> "none", msg |-> << >> ]

ValueError(m) == [ cls |-> "ValueError", msg |-> m ]

MissingColumnsMessage(missing) == << "Missing required columns: " >> \o Join(missing)

NoSnippetMessage == << "No valid code snippet generated by the agent." >>

\* response.get on an object that is not a mapping
NotAMappingError == [ cls |-> "AttributeError", msg |-> << "object has no attribute 'get'" >> ]

\* a failure of data_analysis_agent.invoke (API error, parsing error, ...)
AgentError == [ cls |-> "RuntimeError", msg |-> << "agent invocation failed" >> ]

\* a failure raised by the running snippet (missing column, type error, ...)
ExecutionError == [ cls |-> "KeyError", msg |-> << "snippet raised" >> ]

\* the classes derived from Exception among the ones raised here
ExceptionClasses == { "ValueError", "AttributeError", "RuntimeError", "KeyError" }

\* a plausible slip: the handler is narrowed to ValueError
CaughtValueErrorOnly(e) == e.cls = "ValueError"

\* except Exception as e
Caught(e) == e.cls \in ExceptionClasses

\* print(f"An error occurred while processing the query: {e}")
ErrorLine(e) == << "An error occurred while processing the query: " >> \o e.msg

NothingPrinted == << >>

\* a plausible slip: the handler re-enters the agent step instead of returning
AfterExceptRetry == "invoke"

\* process_query falls off its end after the handler
AfterExcept == "idle"

\* ---------------------------------------------------------------- snippets
\* A CodeSnippet is the sequence of its lexical tokens; c is the token class:
\* "name" (identifier), "attr" (attribute/method), "kwarg" (keyword-argument
\* name), "target" (assignment target), "str" (string literal), "kw"
\* (language keyword).
Tok(t, c) == [ t |-> t, c |-> c ]

EmptySnippet == << >>

\* df['sale price'].groupby(df['country']).mean().plot(kind='bar')
Scenario1Snippet ==
    << Tok("df", "name"), Tok("sale price", "str"), Tok("groupby", "attr"),
       Tok("df", "name"), Tok("country", "str"), Tok("mean", "attr"),
       Tok("plot", "attr"), Tok("kind", "kwarg"), Tok("bar", "str") >>

\* df.plot(color='red')
AllowedOnlySnippet ==
    << Tok("df", "name"), Tok("plot", "attr"), Tok("color", "kwarg"), Tok("red", "str") >>

\* mean = df.mean()
BindMeanSnippet == << Tok("mean", "target"), Tok("df", "name"), Tok("mean", "attr") >>

\* df = df.iloc[0]
RebindDfSnippet == << Tok("df", "target"), Tok("df", "name"), Tok("iloc", "attr") >>

\* import os; os.system('rm -rf /')
OsSystemSnippet ==
    << Tok("import", "kw"), Tok("os", "name"), Tok("os", "name"),
       Tok("system", "attr"), Tok("rm -rf /", "str") >>

\* plt.plot(df)
PltPlotSnippet == << Tok("plt", "name"), Tok("plot", "attr"), Tok("df", "name") >>

\* pd.unique(df)
PdUniqueSnippet == << Tok("pd", "name"), Tok("unique", "attr"), Tok("df", "name") >>

\* df.mea()  -- a prefix of the allowed 'mean'
LookalikeSnippet == << Tok("df", "name"), Tok("mea", "attr") >>

\* ------------------------------------------------------- model responses
\* The "output" text is a sequence of parts: prose, a fenced code block, or
\* a plain line that looks like code.
Prose       == [ k |-> "prose", body |-> EmptySnippet ]
Fence(code) == [ k |-> "fence", body |-> code ]
CodeLine(code) == [ k |-> "code", body |-> code ]

OutputTexts ==
    { << >>,
      << Prose >>,
      << Fence(EmptySnippet) >>,
      << Prose, Fence(Scenario1Snippet), Prose >>,
      << Fence(AllowedOnlySnippet) >>,
      << Prose, CodeLine(BindMeanSnippet), CodeLine(AllowedOnlySnippet) >>,
      << CodeLine(BindMeanSnippet), Fence(RebindDfSnippet), Fence(OsSystemSnippet) >>,
      << Fence(OsSystemSnippet) >>,
      << Fence(PltPlotSnippet) >>,
      << CodeLine(PdUniqueSnippet) >>,
      << Fence(LookalikeSnippet) >> }

NoText == << >>

\* what data_analysis_agent.invoke can hand back: a mapping with or without
\* an "output" key, whose value is text or None, or an object of another type
TextResponse(text) == [ type |-> "dict", hasOutput |-> TRUE, isText |-> TRUE, text |-> text ]
NoKeyResponse      == [ type |-> "dict", hasOutput |-> FALSE, isText |-> FALSE, text |-> NoText ]
NoneOutputResponse == [ type |-> "dict", hasOutput |-> TRUE, isText |-> FALSE, text |-> NoText ]
StrResponse        == [ type |-> "str", hasOutput |-> FALSE, isText |-> FALSE, text |-> NoText ]
NoneResponse       == [ type |-> "None", hasOutput |-> FALSE, isText |-> FALSE, text |-> NoText ]
NoResponse         == [ type |-> "unset", hasOutput |-> FALSE, isText |-> FALSE, text |-> NoText ]

Responses ==
    { TextResponse(t) : t \in OutputTexts }
        \cup { NoKeyResponse, NoneOutputResponse, StrResponse, NoneResponse }

\* only a mapping has .get
IsMapping(r) == r.type = "dict"

\* response.get('output', ''): the value under the key, '' when the key is absent
GetOutput(r) ==
    IF r.hasOutput THEN [ isText |-> r.isText, text |-> r.text ]
    ELSE [ isText |-> TRUE, text |-> << >> ]

\* ---------------------------------------------------------------- extractor
RECURSIVE FirstFence(_)
FirstFence(text) ==
    IF text = << >> THEN EmptySnippet
    ELSE IF Head(text).k = "fence" THEN Head(text).body
    ELSE FirstFence(Tail(text))

RECURSIVE JoinCodeLines(_)
JoinCodeLines(text) ==
    IF text = << >> THEN EmptySnippet
    ELSE (IF Head(text).k = "code" THEN Head(text).body ELSE EmptySnippet)
         \o JoinCodeLines(Tail(text))

HasFence(text) == \E i \in 1..Len(text) : text[i].k = "fence"

\* CodeExecutor.extract_code_snippet: the first fenced block when there is
\* one, else the code-like lines joined; the empty sentinel when nothing is
\* found or the value is not text
extract_code_snippet(out) ==
    IF ~out.isText THEN EmptySnippet
    ELSE IF HasFence(out.text) THEN FirstFence(out.text)
    ELSE JoinCodeLines(out.text)

\* a plausible slip: the emptiness test is dropped
SnippetMissingNever(code) == FALSE

\* if not code_snippet
SnippetMissing(code) == code = EmptySnippet

\* ---------------------------------------------------------------- validator
\* the tokens that need permission: identifiers, attributes, keyword-argument
\* names and assignment targets; literals and language keywords do not
IdentTokens(code) ==
    { code[i].t : i \in { j \in 1..Len(code) : code[j].c \in { "name", "attr", "kwarg", "target" } } }

Disallowed(code, allowList) == IdentTokens(code) \ Range(allowList)

\* the offending tokens in the order they appear
RECURSIVE DisallowedSeq(_, _)
DisallowedSeq(code, allowList) ==
    IF code = << >> THEN << >>
    ELSE (IF Head(code).t \in Disallowed(<< Head(code) >>, allowList)
          THEN << Head(code).t >> ELSE << >>)
         \o DisallowedSeq(Tail(code), allowList)

\* whole-token membership of every identifier token; an empty snippet fails
Validate(code, allowList) == code # EmptySnippet /\ Disallowed(code, allowList) = { }

ValidationRejected(code, allowList) ==
    ValueError(<< "Disallowed keywords: " >> \o DisallowedSeq(code, allowList))

\* --------------------------------------------------------------- namespace
\* a plausible slip: a name of the caller's environment is handed over too
ExecutionNamespaceWithSelf ==
    [ n \in { "df", "pd", "plt", "self" } |->
        CASE n = "df" -> "self.df" [] n = "pd" -> "pd" [] n = "plt" -> "plt"
          [] OTHER -> "self" ]

\* {'df': self.df, 'pd': pd, 'plt': plt}
ExecutionNamespace ==
    [ n \in { "df", "pd", "plt" } |->
        CASE n = "df" -> "self.df" [] n = "pd" -> "pd" [] OTHER -> "plt" ]

NoNamespace == << >>

\* the names the snippet assigns
Targets(code) == { code[i].t : i \in { j \in 1..Len(code) : code[j].c = "target" } }

\* the namespace after the snippet bound its targets
Bind(namespace, names) ==
    [ n \in (DOMAIN namespace) \cup names |->
        IF n \in names THEN "snippet value" ELSE namespace[n] ]

\* ------------------------------------------------------------ state machine
ColumnSets == { c \cup { "city" } : c \in SUBSET { "sale price", "country" } }

\* PlotAgent.__init__: the dataframe is loaded once, the agent is built on it
Init ==
    /\ pc = "idle"
    /\ queryNo = 0
    /\ columns \in ColumnSets
    /\ input_user = << >>
    /\ columnChecked = FALSE
    /\ response = NoResponse
    /\ code_snippet = EmptySnippet
    /\ exc = NoException
    /\ printed = NothingPrinted
    /\ agentCalls = 0
    /\ toolRuns = 0
    /\ extractCalls = 0
    /\ execCalls = 0
    /\ execState = "NotStarted"
    /\ runEntries = 0
    /\ validated = FALSE
    /\ ns = NoNamespace
    /\ allowed = ALLOWED_KEYWORDS
    /\ verdicts = { }
    /\ pltFigs = { }
    /\ boundEver = { }

\* run(input_user): prints the query and enters process_query
Run(q) ==
    /\ pc = "idle"
    /\ queryNo < MaxQueries
    /\ pc' = "precheck"
    /\ queryNo' = queryNo + 1
    /\ input_user' = q
    /\ columnChecked' = FALSE
    /\ response' = NoResponse
    /\ code_snippet' = EmptySnippet
    /\ exc' = NoException
    /\ printed' = NothingPrinted
    /\ agentCalls' = 0
    /\ toolRuns' = 0
    /\ extractCalls' = 0
    /\ execCalls' = 0
    /\ execState' = "NotStarted"
    /\ runEntries' = 0
    /\ validated' = FALSE
    /\ UNCHANGED <<columns, ns, allowed, verdicts, pltFigs, boundEver>>

\* process_query, the column pre-check with _validate_columns
PreCheck ==
    /\ pc = "precheck"
    /\ IF MentionsSalePrice(input_user)
       THEN /\ columnChecked' = TRUE
            /\ LET missing == MissingColumns(RequiredColumns, columns)
               IN  IF missing # << >>
                   THEN /\ exc' = ValueError(MissingColumnsMessage(missing))
                        /\ pc' = "except"
                   ELSE /\ exc' = exc
                        /\ pc' = "invoke"
       ELSE /\ columnChecked' = columnChecked
            /\ exc' = exc
            /\ pc' = "invoke"
    /\ UNCHANGED <<queryNo, columns, input_user, response, code_snippet, printed,
                   agentCalls, toolRuns, extractCalls, execCalls, execState,
                   runEntries, validated, ns, allowed, verdicts, pltFigs, boundEver>>

\* self.data_analysis_agent.invoke: the agent built with
\* allow_dangerous_code=True runs the code its model writes in its own python
\* tool, n times, before it answers or fails
InvokeAgent ==
    /\ pc = "invoke"
    /\ agentCalls' = agentCalls + 1
    /\ \E n \in 0..MaxToolRuns : toolRuns' = toolRuns + n
    /\ \/ \E r \in Responses :
             /\ response' = r
             /\ exc' = exc
             /\ pc' = "extract"
       \/ /\ response' = response
          /\ exc' = AgentError
          /\ pc' = "except"
    /\ UNCHANGED <<queryNo, columns, input_user, columnChecked, code_snippet, printed,
                   extractCalls, execCalls, execState, runEntries, validated, ns,
                   allowed, verdicts, pltFigs, boundEver>>

\* _extract_and_execute_code up to the emptiness test
Extract ==
    /\ pc = "extract"
    /\ IF ~IsMapping(response)
       THEN /\ exc' = NotAMappingError
            /\ pc' = "except"
            /\ UNCHANGED <<code_snippet, extractCalls>>
       ELSE LET code == extract_code_snippet(GetOutput(response))
            IN  /\ code_snippet' = code
                /\ extractCalls' = extractCalls + 1
                /\ IF SnippetMissing(code)
                   THEN /\ exc' = ValueError(NoSnippetMessage)
                        /\ pc' = "except"
                   ELSE /\ exc' = exc
                        /\ pc' = "execute"
    /\ UNCHANGED <<queryNo, columns, input_user, columnChecked, response, printed,
                   agentCalls, toolRuns, execCalls, execState, runEntries, validated,
                   ns, allowed, verdicts, pltFigs, boundEver>>

\* CodeExecutor.execute_safe_code is called with the snippet, the allow-list
\* and a namespace; it validates first and starts the snippet only on a pass
ExecuteSafeCode ==
    /\ pc = "execute"
    /\ execCalls' = execCalls + 1
    /\ LET ok == Validate(code_snippet, allowed)
       IN  /\ verdicts' = verdicts \cup { << queryNo, code_snippet, ok >> }
           /\ validated' = ok
           /\ IF ok
              THEN /\ ns' = ExecutionNamespace
                   /\ execState' = "Running"
                   /\ runEntries' = runEntries + 1
                   /\ exc' = exc
                   /\ pc' = "running"
              ELSE /\ ns' = NoNamespace
                   /\ exc' = ValidationRejected(code_snippet, allowed)
                   /\ pc' = "except"
                   /\ UNCHANGED <<execState, runEntries>>
    /\ UNCHANGED <<queryNo, columns, input_user, columnChecked, response, code_snippet,
                   printed, agentCalls, toolRuns, extractCalls, allowed, pltFigs,
                   boundEver>>

\* the snippet runs in the namespace: it may draw into the shared plt, binds
\* its targets, and either completes or raises part-way; nothing draws back
\* what a failing snippet drew; the namespace is dropped on the way out
RunSnippet ==
    /\ pc = "running"
    /\ \E completes \in BOOLEAN, drew \in BOOLEAN, bound \in BOOLEAN :
          /\ completes => bound
          /\ pltFigs' = IF drew
                        THEN pltFigs \cup { [ q |-> queryNo, partial |-> ~completes ] }
                        ELSE pltFigs
          /\ LET after == IF bound THEN Bind(ns, Targets(code_snippet)) ELSE ns
             IN  boundEver' = boundEver
                                \cup { n \in DOMAIN after : after[n] = "snippet value" }
          /\ IF completes
             THEN /\ execState' = "Succeeded"
                  /\ exc' = exc
                  /\ pc' = "idle"
             ELSE /\ execState' = "Failed"
                  /\ exc' = ExecutionError
                  /\ pc' = "except"
    /\ ns' = NoNamespace
    /\ UNCHANGED <<queryNo, columns, input_user, columnChecked, response, code_snippet,
                   printed, agentCalls, toolRuns, extractCalls, execCalls, runEntries,
                   validated, allowed, verdicts>>

\* except Exception as e: print(...), then process_query and run return
Except ==
    /\ pc = "except"
    /\ IF Caught(exc)
       THEN /\ printed' = ErrorLine(exc)
            /\ pc' = AfterExcept
       ELSE /\ printed' = printed
            /\ pc' = "crashed"
    /\ UNCHANGED <<queryNo, columns, input_user, columnChecked, response, code_snippet,
                   exc, agentCalls, toolRuns, extractCalls, execCalls, execState,
                   runEntries, validated, ns, allowed, verdicts, pltFigs, boundEver>>

Next ==
    \/ \E q \in Queries : Run(q)
    \/ PreCheck
    \/ InvokeAgent
    \/ Extract
    \/ ExecuteSafeCode
    \/ RunSnippet
    \/ Except

Spec == Init /\ [][Next]_vars

\* =================================================================== claims
ErrorPrefix == "An error occurred while processing the query: "

NoSnippetLine == << ErrorPrefix, "No valid code snippet generated by the agent." >>

\* C1: over any sequence of process_query calls, model-generated code runs
\* only after the Keyword Validator has passed for it: no code runs inside
\* the agent invocation, and the snippet is started only on a pass.
C1_CodeRunsOnlyAfterValidation ==
    /\ toolRuns = 0
    /\ execState # "NotStarted" => validated

\* C2: when the Extractor returns the empty sentinel, the query raises before
\* execute_safe_code is reached, the Executor is not invoked and the caller
\* reports "No valid code snippet generated by the agent."
C2_EmptyExtractionNeverExecutes ==
    (extractCalls > 0 /\ code_snippet = << >>) =>
        /\ pc \in { "except", "idle" }
        /\ execCalls = 0
        /\ execState = "NotStarted"
        /\ pc = "idle" => printed = NoSnippetLine

C2_Witness ==
    /\ pc = "idle"
    /\ response = TextResponse(<< Prose >>)
    /\ extractCalls = 1
    /\ execCalls = 0
    /\ printed = NoSnippetLine

\* C3: whichever step of a query fails, process_query catches the failure,
\* prints a message for it and returns; no failure leaves process_query or
\* run as an unhandled fault.
C3_FailuresCaughtAndReported ==
    /\ pc # "crashed"
    /\ (pc = "idle" /\ exc # NoException) =>
           /\ Len(printed) >= 2
           /\ printed[1] = ErrorPrefix
           /\ SubSeq(printed, 2, Len(printed)) = exc.msg

C3_Witness ==
    /\ pc = "idle"
    /\ execState = "Failed"
    /\ exc.cls = "KeyError"
    /\ printed = << ErrorPrefix, "snippet raised" >>

\* C4: a query makes at most one execution attempt: the agent and
\* execute_safe_code are each invoked at most once, the execution state goes
\* NotStarted -> Running -> Succeeded or Failed, and Running is entered at
\* most once, so a Failed query is never run again.
C4_OneAttemptPerQuery ==
    /\ agentCalls <= 1
    /\ execCalls <= 1
    /\ runEntries <= 1
    /\ execState \in { "NotStarted", "Running", "Succeeded", "Failed" }
    /\ execState = "NotStarted" <=> runEntries = 0
    /\ execState = "Running" <=> pc = "running"
    /\ execState = "Succeeded" => pc = "idle"
    /\ execState = "Failed" => pc \in { "except", "idle" }

C4_Witness ==
    /\ pc = "idle"
    /\ execState = "Failed"
    /\ agentCalls = 1
    /\ execCalls = 1
    /\ runEntries = 1

\* C5: after a query whose snippet failed, no figure that query drew into
\* the shared plt before failing is there when a later query's snippet runs.
C5_NoPartialPlotLeaks ==
    pc = "running" => \A f \in pltFigs : ~(f.partial /\ f.q < queryNo)

\* C6: an agent response without an "output" text field (key missing, value
\* not text, or not a mapping) ends the query as ExtractionEmpty with "No
\* valid code snippet generated by the agent." and no Executor call.
C6_NoOutputMeansExtractionEmpty ==
    (pc = "idle" /\ response \in { NoKeyResponse, NoneOutputResponse, StrResponse, NoneResponse }) =>
        /\ printed = NoSnippetLine
        /\ execCalls = 0

\* C7: the namespace a snippet starts in is built anew for the call and holds
\* exactly df, pd and plt with the agent's own objects, whatever earlier
\* snippets bound or rebound; outside an execution there is no namespace.
C7_FreshNamespacePerExecution ==
    /\ pc = "running" =>
           /\ DOMAIN ns = { "df", "pd", "plt" }
           /\ ns["df"] = "self.df"
           /\ ns["pd"] = "pd"
           /\ ns["plt"] = "plt"
           /\ \A n \in boundEver : n \in DOMAIN ns => ns[n] # "snippet value"
    /\ pc # "running" => ns = << >>

C7_Witness ==
    /\ pc = "running"
    /\ "df" \in boundEver
    /\ Targets(code_snippet) = { "mean" }

\* C8: the allow-list is the same 12-token ALLOWED_KEYWORDS sequence on every
\* query, and the same snippet validated in two queries gets the same verdict.
C8_AllowListFixed ==
    /\ allowed = << "df", "iloc", "to_dict", "mean", "mode", "std",
                    "max", "min", "color", "plot", "unique", "groupby" >>
    /\ Len(allowed) = 12
    /\ \A v \in verdicts, w \in verdicts : v[2] = w[2] => v[3] = w[3]

C8_Witness ==
    \E v \in verdicts, w \in verdicts :
        /\ v[1] # w[1]
        /\ v[2] = w[2]
        /\ v[2] = OsSystemSnippet
        /\ ~v[3]

\* the names and the methods a snippet uses
NamesOf(code) == { code[i].t : i \in { j \in 1..Len(code) : code[j].c \in { "name", "target" } } }
MethodsOf(code) == { code[i].t : i \in { j \in 1..Len(code) : code[j].c = "attr" } }

\* C9: with ALLOWED_KEYWORDS, the snippet
\* df['sale price'].groupby(df['country']).mean().plot(kind='bar') passes the
\* Validator, and so does a snippet that uses only the names the namespace
\* provides with allowed methods.
C9_NamespaceSnippetsPass ==
    \A v \in verdicts :
        (\/ v[2] = Scenario1Snippet
         \/ /\ NamesOf(v[2]) \subseteq { "df", "pd", "plt" }
            /\ MethodsOf(v[2]) \subseteq
                   { "iloc", "to_dict", "mean", "mode", "std", "max", "min",
                     "plot", "unique", "groupby" }
            /\ \A i \in 1..Len(v[2]) : v[2][i].c # "kwarg")
        => v[3]

\* the queries that contain 'sale price' when case is ignored
QueriesNamingSalePrice == { QSalePrice, QMixedCase, QUpperInside }

ExpectedMissingLine ==
    IF "sale price" \notin columns /\ "country" \notin columns
    THEN << ErrorPrefix, "Missing required columns: ", "sale price", ", ", "country" >>
    ELSE IF "sale price" \notin columns
    THEN << ErrorPrefix, "Missing required columns: ", "sale price" >>
    ELSE << ErrorPrefix, "Missing required columns: ", "country" >>

\* C10: a query that contains 'sale price' in any case, on a dataframe
\* lacking 'sale price' or 'country', reports the missing columns in the
\* order sale price, country, and the agent, the Extractor and the Executor
\* are not invoked; a query that does not contain it is not column-checked
\* and always reaches the agent.
C10_ColumnPreCheckGate ==
    (queryNo > 0 /\ pc # "precheck") =>
        /\ (/\ input_user \in QueriesNamingSalePrice
            /\ ~({ "sale price", "country" } \subseteq columns)) =>
               /\ pc \in { "except", "idle" }
               /\ columnChecked
               /\ agentCalls = 0
               /\ extractCalls = 0
               /\ execCalls = 0
               /\ pc = "idle" => printed = ExpectedMissingLine
        /\ input_user \notin QueriesNamingSalePrice =>
               /\ ~columnChecked
               /\ pc # "invoke" => agentCalls = 1

C10_Witness ==
    /\ pc = "idle"
    /\ input_user = QUpperInside
    /\ agentCalls = 0
    /\ printed = << ErrorPrefix, "Missing required columns: ", "sale price", ", ", "country" >>

====
